---- MODULE Spec2Model ----
(***************************************************************************)
(* Character Studio backend: the four request handlers (getCharacterLibrary,*)
(* getCharacterById, createCharacterPair, generateCharacterVisualization)   *)
(* over the profile store (Firestore collection user_characters), the blob  *)
(* store (Cloud Storage bucket) and the Gemini client.                      *)
(*                                                                          *)
(* Two deployments of the backend are in the repository and both are        *)
(* modelled; `backend` says which one the process runs:                     *)
(*   "express"  src/backend-firebase/functions/src/index.ts                 *)
(*   "v2"       src/unnamed/part_004, lines 273-563 (Functions v2 onCall)   *)
(* A third one, "v1" (src/unnamed/part_004, lines 1-271, Functions v1        *)
(* onCall), creates its client handles lazily; SpecV1 models that process   *)
(* with its invocations running concurrently.                               *)
(*                                                                          *)
(* Requests are served one after the other; inside createCharacterPair the  *)
(* two analyzeAndSaveCharacter sequences interleave freely at their awaits. *)
(* req, resp, calls, blobReads, synthesis, caught, issued and tasks record  *)
(* one exchange and are cleared when it is over.                            *)
(*                                                                          *)
(* Spec starts the backend over empty stores, SpecRestart over the stores   *)
(* an earlier run left, SpecLegacy over a store that holds a document       *)
(* without imageUrl.                                                        *)
(***************************************************************************)
EXTENDS Integers, Sequences, FiniteSets, TLC

VARIABLES
    backend,    \* which deployment runs
    apiKey,     \* process.env.API_KEY is set (ai # null)
    profiles,   \* Firestore user_characters: document id -> document data
    blobs,      \* bucket: file path -> [bytes, contentType]
    clock,      \* Firestore server time (serverTimestamp)
    nextId,     \* auto-id generator of collection.doc()
    req,        \* the request being served, with how its dependency calls go
    resp,       \* the response sent for req (NoResp while none is sent)
    calls,      \* dependency calls and handler steps made on behalf of req
    blobReads,  \* the blob paths read on behalf of req
    synthesis,  \* the exchange with the image synthesis client made for req
    caught,     \* the error the catch block of req's handler received
    issued,     \* how often each call was issued for req, per issuer
    tasks,      \* the two analyzeAndSaveCharacter sequences of req
    handles,    \* v1: the module variables app, firestore, storage and ai
    invocations,\* v1: the handler invocations under way in the process
    uses        \* v1: the handles handlers have used, with their values then

vars == <<backend, apiKey, profiles, blobs, clock, nextId, req, resp, calls,
          blobReads, synthesis, caught, issued, tasks, handles, invocations, uses>>

\* the variables of the lazily initialized deployment
lazy == <<handles, invocations, uses>>

\* the variables of the exchange and the stores
eager == <<backend, apiKey, profiles, blobs, clock, nextId, req, resp, calls,
           blobReads, synthesis, caught, issued, tasks>>

-----------------------------------------------------------------------------
(* Bounds and input sets *)

\* how many createCharacterPair requests may start their two sequences
MaxCreates == 1

Backends == {"express", "v2"}
Users == {"u1", "u2"}
Bucket == "character-studio-comics.appspot.com"

\* Authorization headers. scheme "none": no header; "Basic": a header that
\* does not start with 'Bearer '; a Bearer token is valid iff it is a user's.
NoHeader == [scheme |-> "none", token |-> ""]
Authorizations ==
    {NoHeader, [scheme |-> "Basic", token |-> "u1"],
     [scheme |-> "Bearer", token |-> "expired"]}
    \cup {[scheme |-> "Bearer", token |-> u] : u \in Users}

\* base64 payloads; "" stands for every falsy value (undefined, null, "")
Payloads == {"", "QQ==", "Qg=="}
\* MIME types as the list mimeType.split("/"); <<>> stands for a falsy value
MimeTypes == {<<>>, <<"image", "svg+xml">>}
Prompts == {"", "standing in rain"}

\* mutant of AutoId: the identifier is derived from the position of the image
\* alone, so that a repeated call lands on the documents of the earlier one
AutoIdRepeating(n) == "e" \o ToString(n)

\* the n-th identifier the auto-id generator hands out
AutoId(n) == "c" \o ToString(n)
\* the identifiers of the two profiles an earlier run of the backend created
EarlierIds == {"e1", "e2"}
\* identifiers a client may send: falsy, never created, or a generated one
CharacterIds ==
    {"", "nope"} \cup {AutoId(n) : n \in 1..(2 * MaxCreates)} \cup EarlierIds

\* raw error texts of the dependencies
StoreError == "firestore: 14 UNAVAILABLE"
BlobError == "storage: 503 backend error"
AiError == "gemini: 429 RESOURCE_EXHAUSTED"

-----------------------------------------------------------------------------
(* Responses *)

NoBody == [kind |-> "none"]
NoResp == [status |-> "none", body |-> NoBody]
Resp(status, body) == [status |-> status, body |-> body]
ErrorBody(message, details) ==
    [kind |-> "error", error |-> message, details |-> details]

\* a thrown value: an HttpsError (https) with its code, or any other Error
HttpsError(code, message, details) ==
    [https |-> TRUE, code |-> code, message |-> message, details |-> details]
RawError(message) ==
    [https |-> FALSE, code |-> "", message |-> message, details |-> ""]

-----------------------------------------------------------------------------
(* Identity verification *)

\* admin.auth().verifyIdToken(idToken): the decoded token, or it throws
verifyIdToken(idToken) ==
    IF idToken \in Users THEN [ok |-> TRUE, uid |-> idToken]
    ELSE [ok |-> FALSE, uid |-> ""]

\* express: authMiddleware. next: the handler runs, with req.user.uid = uid
authMiddleware(authorization) ==
    IF authorization.scheme # "Bearer"
    THEN [next |-> FALSE, uid |-> "", calls |-> {},
          resp |-> Resp("401", ErrorBody("Unauthorized: No token provided.", ""))]
    ELSE LET decodedToken == verifyIdToken(authorization.token) IN
         IF decodedToken.ok
         THEN [next |-> TRUE, uid |-> decodedToken.uid,
               calls |-> {"auth.verifyIdToken"}, resp |-> NoResp]
         ELSE [next |-> FALSE, uid |-> "", calls |-> {"auth.verifyIdToken"},
               resp |-> Resp("403", ErrorBody("Unauthorized: Invalid token.", ""))]

\* v2: what onCall does with the Authorization header before the handler
\* runs: no header leaves request.auth undefined, a header that is no valid
\* Bearer token is rejected with "unauthenticated" and the handler never runs
onCall(authorization) ==
    IF authorization.scheme = "none"
    THEN [rejected |-> FALSE, auth |-> FALSE, uid |-> "", calls |-> {}]
    ELSE IF authorization.scheme = "Bearer" /\ verifyIdToken(authorization.token).ok
    THEN [rejected |-> FALSE, auth |-> TRUE,
          uid |-> verifyIdToken(authorization.token).uid,
          calls |-> {"auth.verifyIdToken"}]
    ELSE [rejected |-> TRUE, auth |-> FALSE, uid |-> "",
          calls |-> IF authorization.scheme = "Bearer"
                    THEN {"auth.verifyIdToken"} ELSE {}]

\* v2: requireAuth(context): the uid, or it throws
requireAuth(context) ==
    IF ~context.auth
    THEN [ok |-> FALSE, uid |-> "",
          error |-> HttpsError("unauthenticated",
                       "The function must be called while authenticated.", "")]
    ELSE [ok |-> TRUE, uid |-> context.uid, error |-> RawError("")]

\* mutant of ExpressGetAi: the client is handed out unchecked
ExpressGetAiUnchecked == [ok |-> TRUE, error |-> RawError("")]

\* getAi(): the client, or it throws
ExpressGetAi ==
    IF ~apiKey
    THEN [ok |-> FALSE,
          error |-> RawError("The Gemini API key is not configured for the backend.")]
    ELSE [ok |-> TRUE, error |-> RawError("")]

V2GetAi ==
    IF ~apiKey
    THEN [ok |-> FALSE,
          error |-> HttpsError("failed-precondition",
                       "The Gemini API key is not configured for the backend.", "")]
    ELSE [ok |-> TRUE, error |-> RawError("")]

\* mutant of handleGeneralError: every error is wrapped, an HttpsError too
handleGeneralErrorWrapsAll(error, context) ==
    HttpsError("internal",
               "An internal server error occurred in " \o context \o ".",
               error.message)

\* mutant of handleGeneralError: the instanceof test is gone, the code of an
\* HttpsError is replaced by internal while its message is kept
handleGeneralErrorDropsCode(error, context) ==
    IF error.https THEN HttpsError("internal", error.message, error.details)
    ELSE HttpsError("internal",
                    "An internal server error occurred in " \o context \o ".",
                    error.message)

\* v2: handleGeneralError(error, context): what it throws
handleGeneralError(error, context) ==
    IF error.https THEN error
    ELSE HttpsError("internal",
                    "An internal server error occurred in " \o context \o ".",
                    error.message)

\* v2: the response onCall sends for an error thrown out of the handler; an
\* error that is no HttpsError leaves as "internal" with the message INTERNAL
Thrown(error) ==
    IF error.https THEN Resp(error.code, ErrorBody(error.message, error.details))
    ELSE Resp("internal", ErrorBody("INTERNAL", ""))

\* the response onCall sends for a token it rejects
Rejected == Resp("unauthenticated", ErrorBody("Unauthenticated", ""))

-----------------------------------------------------------------------------
(* Profile store *)

\* { id: doc.id, ...doc.data() }
WithId(id, data) ==
    [id |-> id, userId |-> data.userId, characterName |-> data.characterName,
     description |-> data.description, keywords |-> data.keywords,
     imageUrl |-> data.imageUrl, createdAt |-> data.createdAt]

\* the orders in which the store may hand back the documents of a set
Perms(S) ==
    {s \in [1..Cardinality(S) -> S] : \A i, j \in 1..Cardinality(S) : i # j => s[i] # s[j]}

\* mutant of Where: the query without its where clause
WhereDropped(snapshot, uid) == snapshot

\* mutant of Where: the query answers with its first match only
WhereLimited(snapshot, uid) ==
    SubSeq(SelectSeq(snapshot, LAMBDA id : profiles[id].userId = uid), 1, 1)

\* collection("user_characters").where("userId", "==", uid).get(), the
\* collection being scanned in the order snapshot
Where(snapshot, uid) ==
    SelectSeq(snapshot, LAMBDA id : profiles[id].userId = uid)

\* doc.exists
Exists(characterId) == characterId \in DOMAIN profiles

\* mutant of NotFoundOrDenied: the ownership test left out
NotFoundOnly(characterId, uid) == ~Exists(characterId)

\* !doc.exists || doc.data()?.userId !== uid
NotFoundOrDenied(characterId, uid) ==
    ~Exists(characterId) \/ profiles[characterId].userId # uid

\* no call to the synthesis client was made
NoSynthesis ==
    [called |-> FALSE, data |-> "", mimeType |-> <<>>, text |-> "",
     ok |-> FALSE, parts |-> <<>>]

\* the try block of the handler ran to its end, or was never entered
NoCatch == [raised |-> FALSE, error |-> RawError("")]

\* what a handler that runs to its end hands back to the action
Outcome(response, made, reads) ==
    [resp |-> response, calls |-> made, reads |-> reads, synthesis |-> NoSynthesis,
     caught |-> NoCatch]

\* the same for a handler that got as far as the synthesis call
Synthesized(response, made, reads, exchange) ==
    [resp |-> response, calls |-> made, reads |-> reads, synthesis |-> exchange,
     caught |-> NoCatch]

\* the same for a handler whose try block raised error: outcome is what its
\* catch block made of it
Catch(error, outcome) ==
    [outcome EXCEPT !.caught = [raised |-> TRUE, error |-> error]]

-----------------------------------------------------------------------------
(* getCharacterLibrary *)

ExpressGetCharacterLibrary(authorization, snapshot, queryOk) ==
    LET a == authMiddleware(authorization) IN
    IF ~a.next THEN Outcome(a.resp, a.calls, {})
    ELSE IF a.uid = ""
    THEN Outcome(Resp("403", ErrorBody("Authentication details are missing.", "")),
                 a.calls, {})
    ELSE IF ~queryOk
    THEN Catch(RawError(StoreError),
               Outcome(Resp("500", ErrorBody("Internal server error.", "")),
                       a.calls \cup {"store.query"}, {}))
    ELSE LET docs == Where(snapshot, a.uid) IN
         Outcome(Resp("200", [kind |-> "characters",
                              characters |-> [i \in 1..Len(docs) |->
                                                WithId(docs[i], profiles[docs[i]])]]),
                 a.calls \cup {"store.query"}, {})

V2GetCharacterLibrary(authorization, snapshot, queryOk) ==
    LET context == onCall(authorization)
        auth == requireAuth(context) IN
    IF context.rejected THEN Outcome(Rejected, context.calls, {})
    ELSE IF ~auth.ok THEN Outcome(Thrown(auth.error), context.calls \cup {"requireAuth"}, {})
    ELSE IF ~queryOk
    THEN Catch(RawError(StoreError),
               Outcome(Thrown(handleGeneralError(RawError(StoreError), "getCharacterLibrary")),
                       context.calls \cup {"requireAuth", "store.query"}, {}))
    ELSE LET docs == Where(snapshot, auth.uid) IN
         Outcome(Resp("ok", [kind |-> "characters",
                             characters |-> [i \in 1..Len(docs) |->
                                               WithId(docs[i], profiles[docs[i]])]]),
                 context.calls \cup {"requireAuth", "store.query"}, {})

-----------------------------------------------------------------------------
(* getCharacterById *)

ExpressGetCharacterById(authorization, characterId, getOk) ==
    LET a == authMiddleware(authorization) IN
    IF ~a.next THEN Outcome(a.resp, a.calls, {})
    ELSE IF a.uid = ""
    THEN Outcome(Resp("403", ErrorBody("Authentication details are missing.", "")),
                 a.calls, {})
    ELSE IF characterId = ""
    THEN Outcome(Resp("400", ErrorBody("Missing 'characterId'.", "")),
                 a.calls \cup {"validate"}, {})
    ELSE IF ~getOk
    THEN Catch(RawError(StoreError),
               Outcome(Resp("500", ErrorBody("Internal server error.", "")),
                       a.calls \cup {"validate", "store.get"}, {}))
    ELSE IF NotFoundOrDenied(characterId, a.uid)
    THEN Outcome(Resp("404", ErrorBody("Character not found or permission denied.", "")),
                 a.calls \cup {"validate", "store.get"}, {})
    ELSE Outcome(Resp("200", [kind |-> "character",
                              character |-> WithId(characterId, profiles[characterId])]),
                 a.calls \cup {"validate", "store.get"}, {})

V2GetCharacterById(authorization, characterId, getOk) ==
    LET context == onCall(authorization)
        auth == requireAuth(context) IN
    IF context.rejected THEN Outcome(Rejected, context.calls, {})
    ELSE IF ~auth.ok THEN Outcome(Thrown(auth.error), context.calls \cup {"requireAuth"}, {})
    ELSE IF characterId = ""
    THEN Outcome(Thrown(HttpsError("invalid-argument",
                            "The function must be called with a 'characterId'.", "")),
                 context.calls \cup {"requireAuth", "validate"}, {})
    ELSE IF ~getOk
    THEN Catch(RawError(StoreError),
               Outcome(Thrown(handleGeneralError(RawError(StoreError), "getCharacterById")),
                       context.calls \cup {"requireAuth", "validate", "store.get"}, {}))
    ELSE IF NotFoundOrDenied(characterId, auth.uid)
    THEN Catch(HttpsError("not-found",
                   "Character not found or you do not have permission to access it.", ""),
               Outcome(Thrown(handleGeneralError(
                           HttpsError("not-found",
                               "Character not found or you do not have permission to access it.", ""),
                           "getCharacterById")),
                       context.calls \cup {"requireAuth", "validate", "store.get"}, {}))
    ELSE Outcome(Resp("ok", [kind |-> "character",
                             character |-> WithId(characterId, profiles[characterId])]),
                 context.calls \cup {"requireAuth", "validate", "store.get"}, {})

-----------------------------------------------------------------------------
(* Blob store *)

\* Buffer.from(base64, "base64")
BufferFrom(base64) ==
    CASE base64 = "QQ==" -> <<65>>
      [] base64 = "Qg==" -> <<66>>
      [] OTHER -> <<>>

\* buffer.toString("base64")
ToBase64(buffer) ==
    CASE buffer = <<65>> -> "QQ=="
      [] buffer = <<66>> -> "Qg=="
      [] OTHER -> ""

\* mimeType.split("/")[1], as it prints inside a template string
Subtype(mimeType) == IF Len(mimeType) >= 2 THEN mimeType[2] ELSE "undefined"

\* mutant of FilePath: the blob is named after its owner alone
FilePathWithoutId(uid, characterId, mimeType) ==
    <<"user_uploads", uid, "image." \o Subtype(mimeType)>>

\* `user_uploads/${uid}/${characterId}.${mimeType.split("/")[1]}`, as its segments
FilePath(uid, characterId, mimeType) ==
    <<"user_uploads", uid, characterId \o "." \o Subtype(mimeType)>>

\* the segment with the text after its last "." replaced, if that text is
\* from; the identifiers and user ids before it have no reserved character
WithSuffix(segment, from, to) ==
    LET stems == {id \in CharacterIds : segment = id \o "." \o from} IN
    IF stems = {} THEN segment ELSE (CHOOSE id \in stems : TRUE) \o "." \o to

\* the percent-encoding the storage client applies to each segment of an
\* object name when it signs a URL: "+" becomes "%2B"
EncodeURI(segment) == WithSuffix(segment, "svg+xml", "svg%2Bxml")

\* decodeURIComponent, on one segment
DecodeURIComponent(segment) == WithSuffix(segment, "svg%2Bxml", "svg+xml")

\* file.getSignedUrl({action: "read", ...}): https://host/<bucket>/<path>?<signature>;
\* pathname is kept as pathname.split("/"), whose first element is ""
getSignedUrl(filePath) ==
    [host |-> "storage.googleapis.com",
     pathname |-> <<"", Bucket>> \o [i \in 1..Len(filePath) |-> EncodeURI(filePath[i])],
     search |-> "GoogleAccessId&Expires&Signature"]

\* mutant of PathOfUrl: the path is taken from the URL as it is written
PathOfUrlEncoded(imageUrl) == SubSeq(imageUrl.pathname, 3, Len(imageUrl.pathname))

\* decodeURIComponent(url.pathname.split("/").slice(2).join("/")), as segments
PathOfUrl(imageUrl) ==
    [i \in 1..(Len(imageUrl.pathname) - 2) |-> DecodeURIComponent(imageUrl.pathname[i + 2])]

\* !character?.imageUrl
MissingImageUrl(character) == character.imageUrl.pathname = <<>>

-----------------------------------------------------------------------------
(* Image synthesis: the parts of candidates[0].content of a response *)

TextPart == [inlineData |-> FALSE, data |-> ""]
ImagePart(data) == [inlineData |-> TRUE, data |-> data]
SynthesisResponses ==
    {<<>>, <<ImagePart("Zw==")>>, <<ImagePart("Zw=="), ImagePart("aA==")>>,
     <<TextPart, ImagePart("Zw==")>>, <<ImagePart("")>>}
\* how the dependency calls of a visualization go: the first of the document
\* read, the metadata read and the download that fails, or the synthesis
\* call failing (ok is false) or answering with parts
SynthesisOutcomes ==
    {[failed |-> f, ok |-> FALSE, parts |-> <<>>] : f \in {"get", "metadata", "download", "none"}}
    \cup {[failed |-> "none", ok |-> TRUE, parts |-> r] : r \in SynthesisResponses}

\* express: generatedPart && generatedPart.inlineData?.data
ExpressHasImage(parts) == Len(parts) >= 1 /\ parts[1].inlineData /\ parts[1].data # ""
\* v2: generatedPart && generatedPart.inlineData
V2HasImage(parts) == Len(parts) >= 1 /\ parts[1].inlineData

\* metadata.contentType || "image/jpeg"
ContentTypeOr(contentType) ==
    IF contentType = <<>> THEN <<"image", "jpeg">> ELSE contentType

\* localAi.models.generateContent({contents: {parts: [{inlineData: {data,
\* mimeType}}, {text}]}}) for the blob at filePath, and what the client answers
GenerateContent(filePath, prompt, ai) ==
    [called |-> TRUE, data |-> ToBase64(blobs[filePath].bytes),
     mimeType |-> ContentTypeOr(blobs[filePath].contentType),
     text |-> prompt, ok |-> ai.ok, parts |-> ai.parts]

-----------------------------------------------------------------------------
(* generateCharacterVisualization *)

\* express: res.status(500).json({error: "Internal server error.", details})
ExpressInternal(details) == Resp("500", ErrorBody("Internal server error.", details))

\* express: what becomes of an error thrown by an async route handler outside
\* its try block. The handler's promise rejects; express 4 ignores the
\* promise and no response is ever sent, express 5 forwards the rejection to
\* the default error handler, which answers 500. The sources do not say
\* which express the build links.
Unhandled(forwards) ==
    IF forwards THEN Resp("500", ErrorBody("Internal Server Error", "")) ELSE NoResp

ExpressGenerateCharacterVisualization(authorization, characterId, prompt, ai, forwards) ==
    LET a == authMiddleware(authorization)
        getOk == ai.failed # "get"
        metadataOk == ai.failed # "metadata"
        downloadOk == ai.failed # "download"
        filePath == PathOfUrl(profiles[characterId].imageUrl)
        c1 == a.calls \cup {"getAi"}
        c2 == c1 \cup {"validate"}
        c3 == c2 \cup {"store.get"}
        c4 == c3 \cup {"blob.getMetadata"}
        c5 == c4 \cup {"blob.download"}
        c6 == c5 \cup {"ai.generateContent"}
    IN
    IF ~a.next THEN Outcome(a.resp, a.calls, {})
    ELSE IF a.uid = ""
    THEN Outcome(Resp("403", ErrorBody("Authentication details are missing.", "")),
                 a.calls, {})
    \* getAi() throws outside the try block: the handler's promise rejects
    ELSE IF ~ExpressGetAi.ok THEN Outcome(Unhandled(forwards), c1, {})
    ELSE IF characterId = "" \/ prompt = ""
    THEN Outcome(Resp("400", ErrorBody("Missing character ID or prompt.", "")), c2, {})
    ELSE IF ~getOk
    THEN Catch(RawError(StoreError), Outcome(ExpressInternal(StoreError), c3, {}))
    ELSE IF NotFoundOrDenied(characterId, a.uid)
    THEN Outcome(Resp("404", ErrorBody("Character not found or access denied.", "")), c3, {})
    ELSE IF MissingImageUrl(profiles[characterId])
    THEN Outcome(Resp("404", ErrorBody("Character image URL is missing.", "")), c3, {})
    ELSE IF ~metadataOk \/ filePath \notin DOMAIN blobs
    THEN Catch(RawError(BlobError), Outcome(ExpressInternal(BlobError), c4, {filePath}))
    ELSE IF ~downloadOk
    THEN Catch(RawError(BlobError), Outcome(ExpressInternal(BlobError), c5, {filePath}))
    ELSE IF ~ai.ok
    THEN Catch(RawError(AiError),
               Synthesized(ExpressInternal(AiError), c6, {filePath},
                           GenerateContent(filePath, prompt, ai)))
    ELSE IF ~ExpressHasImage(ai.parts)
    THEN Catch(RawError("No image data returned from AI model."),
               Synthesized(ExpressInternal("No image data returned from AI model."), c6,
                           {filePath}, GenerateContent(filePath, prompt, ai)))
    ELSE Synthesized(Resp("200", [kind |-> "image", imageBase64 |-> ai.parts[1].data]),
                     c6, {filePath}, GenerateContent(filePath, prompt, ai))

V2GenerateCharacterVisualization(authorization, characterId, prompt, ai) ==
    LET context == onCall(authorization)
        getOk == ai.failed # "get"
        metadataOk == ai.failed # "metadata"
        downloadOk == ai.failed # "download"
        auth == requireAuth(context)
        filePath == PathOfUrl(profiles[characterId].imageUrl)
        c1 == context.calls \cup {"getAi"}
        c2 == c1 \cup {"requireAuth"}
        c3 == c2 \cup {"validate"}
        c4 == c3 \cup {"store.get"}
        c5 == c4 \cup {"blob.getMetadata"}
        c6 == c5 \cup {"blob.download"}
        c7 == c6 \cup {"ai.generateContent"}
        context_ == "generateCharacterVisualization"
    IN
    IF context.rejected THEN Outcome(Rejected, context.calls, {})
    ELSE IF ~V2GetAi.ok THEN Outcome(Thrown(V2GetAi.error), c1, {})
    ELSE IF ~auth.ok THEN Outcome(Thrown(auth.error), c2, {})
    ELSE IF characterId = "" \/ prompt = ""
    THEN Outcome(Thrown(HttpsError("invalid-argument",
                                   "Missing character ID or prompt.", "")), c3, {})
    ELSE IF ~getOk THEN Outcome(Thrown(RawError(StoreError)), c4, {})
    ELSE IF NotFoundOrDenied(characterId, auth.uid)
    THEN Outcome(Thrown(HttpsError("not-found",
                                   "Character not found or access denied.", "")), c4, {})
    ELSE IF MissingImageUrl(profiles[characterId])
    THEN Outcome(Thrown(HttpsError("not-found",
                                   "Character image URL is missing.", "")), c4, {})
    ELSE IF ~metadataOk \/ filePath \notin DOMAIN blobs
    THEN Outcome(Thrown(RawError(BlobError)), c5, {filePath})
    ELSE IF ~downloadOk THEN Outcome(Thrown(RawError(BlobError)), c6, {filePath})
    ELSE IF ~ai.ok
    THEN Catch(RawError(AiError),
               Synthesized(Thrown(handleGeneralError(RawError(AiError), context_)), c7,
                           {filePath}, GenerateContent(filePath, prompt, ai)))
    ELSE IF ~V2HasImage(ai.parts)
    THEN Catch(RawError("No image data returned from AI model."),
               Synthesized(Thrown(handleGeneralError(
                               RawError("No image data returned from AI model."), context_)),
                           c7, {filePath}, GenerateContent(filePath, prompt, ai)))
    ELSE Synthesized(Resp("ok", [kind |-> "image", imageBase64 |-> ai.parts[1].data]),
                     c7, {filePath}, GenerateContent(filePath, prompt, ai))

-----------------------------------------------------------------------------
(* Vision analysis: response.text of the analysis call, and JSON.parse *)

\* a JavaScript undefined in a field that is a string otherwise
Undefined == "<undefined>"

\* admin.firestore.FieldValue.serverTimestamp(), the sentinel the store
\* replaces by its clock when it writes the document
ServerTimestamp == -1

\* the same for the field keywords, which is a list otherwise
UndefinedKeywords == <<Undefined>>

\* response.text: empty, no JSON, the complete object, and the objects that
\* lack one of the three fields
AnalysisTexts == {"", "not json", "{characterName,description,keywords}",
                  "{characterName,keywords}", "{characterName,description}",
                  "{description,keywords}"}
\* no analysis response has arrived
NoText == "<no response>"
\* the outcomes of localAi.models.generateContent for an analysis
AnalysisOutcomes ==
    {[ok |-> FALSE, text |-> ""]} \cup {[ok |-> TRUE, text |-> x] : x \in AnalysisTexts}

\* JSON.parse(response.text): it throws on text that is not JSON (the empty
\* text included); a field the JSON lacks reads as undefined
JsonParse(text) ==
    CASE text = "{characterName,description,keywords}" ->
           [ok |-> TRUE, characterName |-> "Aria", description |-> "A calm hero.",
            keywords |-> <<"brave", "calm">>]
      [] text = "{characterName,keywords}" ->
           [ok |-> TRUE, characterName |-> "Aria", description |-> Undefined,
            keywords |-> <<"brave", "calm">>]
      [] text = "{characterName,description}" ->
           [ok |-> TRUE, characterName |-> "Aria", description |-> "A calm hero.",
            keywords |-> UndefinedKeywords]
      [] text = "{description,keywords}" ->
           [ok |-> TRUE, characterName |-> Undefined, description |-> "A calm hero.",
            keywords |-> <<"brave", "calm">>]
      [] OTHER ->
           [ok |-> FALSE, characterName |-> Undefined, description |-> Undefined,
            keywords |-> <<>>]

-----------------------------------------------------------------------------
(* analyzeAndSaveCharacter: one sequence, from await to await *)

Sequences2 == {"A", "B"}

NoUrl == [host |-> "", pathname |-> <<>>, search |-> ""]
NoCharacter ==
    [userId |-> "", characterName |-> "", description |-> "", keywords |-> <<>>,
     imageUrl |-> NoUrl, createdAt |-> 0]
IdleTask ==
    [pc |-> "idle", base64 |-> "", mimeType |-> <<>>, characterId |-> "",
     responseText |-> NoText, newCharacter |-> NoCharacter, result |-> WithId("", NoCharacter),
     error |-> RawError("")]
IdleTasks == [t \in Sequences2 |-> IdleTask]

\* the sequence up to its first await: the blob save is under way
StartTask(base64, mimeType, characterId) ==
    [IdleTask EXCEPT !.pc = "save", !.base64 = base64, !.mimeType = mimeType,
                     !.characterId = characterId]

\* the sequence rejects with error
Reject(task, error) == [task EXCEPT !.pc = "failed", !.error = error]

\* mutant of SavedBlob: the payload is stored without being decoded
SavedBlobUndecoded(task) ==
    [bytes |-> <<>>, contentType |-> task.mimeType]

\* what file.save(buffer, {metadata: {contentType: mimeType}}) stores
SavedBlob(task) ==
    [bytes |-> BufferFrom(task.base64), contentType |-> task.mimeType]

\* the signed URL arrived: the analysis call is under way
AfterSignedUrl(task, uid) ==
    [task EXCEPT !.pc = "ai",
                 !.newCharacter.imageUrl =
                     getSignedUrl(FilePath(uid, task.characterId, task.mimeType))]

\* mutant of HasUndefined: the store is set to ignore undefined properties
\* and writes the document without them
IgnoreUndefinedProperties(character) == FALSE

\* Firestore refuses a document that holds an undefined field value
HasUndefined(character) ==
    \/ Undefined \in {character.characterName, character.description}
    \/ character.keywords = UndefinedKeywords

\* the analysis response arrived: check and parse it, build newCharacter and
\* start the document write
AfterAnalysis(task, uid, out, checksEmptyText) ==
    LET analysis == JsonParse(out.text)
        newCharacter ==
            [userId |-> uid, characterName |-> analysis.characterName,
             description |-> analysis.description, keywords |-> analysis.keywords,
             imageUrl |-> task.newCharacter.imageUrl, createdAt |-> ServerTimestamp]
    IN
    IF ~out.ok THEN Reject(task, RawError(AiError))
    ELSE IF checksEmptyText /\ out.text = ""
    THEN Reject([task EXCEPT !.responseText = out.text],
                RawError("AI analysis returned an empty response."))
    ELSE IF ~analysis.ok
    THEN Reject([task EXCEPT !.responseText = out.text],
                RawError("SyntaxError: Unexpected token"))
    ELSE IF HasUndefined(newCharacter)
    THEN Reject([task EXCEPT !.responseText = out.text],
                RawError("Cannot use undefined as a Firestore value"))
    ELSE [task EXCEPT !.pc = "set", !.responseText = out.text,
                      !.newCharacter = newCharacter]

\* the document the store holds after set(newCharacter)
StoredDocument(newCharacter) == [newCharacter EXCEPT !.createdAt = clock]

\* v2: return {...newCharacter, id: characterId}
V2AfterSet(task) ==
    [task EXCEPT !.pc = "done", !.result = WithId(task.characterId, task.newCharacter)]

\* express: the document is read back
ExpressAfterSet(task) == [task EXCEPT !.pc = "get"]

\* express: return {...createdData, id: characterId}
ExpressAfterGet(task, createdData) ==
    [task EXCEPT !.pc = "done", !.result = WithId(task.characterId, createdData)]

-----------------------------------------------------------------------------
(* createCharacterPair *)

\* !charABase64 || !charBBase64 || !charAMimeType || !charBMimeType
MissingImageData(data) ==
    data.charABase64 = "" \/ data.charBBase64 = ""
    \/ data.charAMimeType = <<>> \/ data.charBMimeType = <<>>

\* mutant of PairBody: the results paired the other way round
PairBodySwapped(charA, charB) ==
    [kind |-> "pair", characterA |-> charB, characterB |-> charA]

\* the response body {characterA: charA, characterB: charB}
PairBody(charA, charB) == [kind |-> "pair", characterA |-> charA, characterB |-> charB]

\* express: the catch block of createCharacterPair
ExpressCreateCatch(error) == ExpressInternal(error.message)
\* v2: the catch block of createCharacterPair
V2CreateCatch(error) == Thrown(handleGeneralError(error, "createCharacterPair"))

\* mutant of PromiseAll: the handler waits until both sequences have settled
\* and answers with whatever they left when at least one fulfilled
PromiseAllSettled(ts, sent) ==
    IF sent # NoResp THEN sent
    ELSE IF \E t \in Sequences2 : ts[t].pc \notin {"done", "failed"} THEN NoResp
    ELSE IF \A t \in Sequences2 : ts[t].pc = "failed"
    THEN IF backend = "express" THEN ExpressCreateCatch(ts["A"].error)
         ELSE V2CreateCatch(ts["A"].error)
    ELSE Resp(IF backend = "express" THEN "200" ELSE "ok",
              PairBody(ts["A"].result, ts["B"].result))

\* await Promise.all([A, B]) and what follows it: nothing while the response
\* is sent already or a sequence is pending and none has rejected; the catch
\* block as soon as one rejects; the success response once both fulfilled
PromiseAll(ts, sent) ==
    IF sent # NoResp THEN sent
    ELSE IF \E t \in Sequences2 : ts[t].pc = "failed"
    THEN LET error == IF ts["A"].pc = "failed" THEN ts["A"].error ELSE ts["B"].error IN
         IF backend = "express" THEN ExpressCreateCatch(error) ELSE V2CreateCatch(error)
    ELSE IF \A t \in Sequences2 : ts[t].pc = "done"
    THEN Resp(IF backend = "express" THEN "200" ELSE "ok",
              PairBody(ts["A"].result, ts["B"].result))
    ELSE NoResp

\* the error the catch block around await Promise.all([A, B]) receives: that
\* of the first sequence to reject (of A when both have rejected at once)
PromiseAllCaught(ts, was) ==
    IF was.raised THEN was
    ELSE IF \E t \in Sequences2 : ts[t].pc = "failed"
    THEN [raised |-> TRUE,
          error |-> IF ts["A"].pc = "failed" THEN ts["A"].error ELSE ts["B"].error]
    ELSE NoCatch

\* the handler up to the point where both sequences are started; start says
\* whether it got there
ExpressCreateCharacterPair(authorization, data) ==
    LET a == authMiddleware(authorization) IN
    IF ~a.next THEN [start |-> FALSE, uid |-> "", resp |-> a.resp, calls |-> a.calls]
    ELSE IF a.uid = ""
    THEN [start |-> FALSE, uid |-> "", calls |-> a.calls,
          resp |-> Resp("403", ErrorBody("Authentication details are missing.", ""))]
    ELSE IF MissingImageData(data)
    THEN [start |-> FALSE, uid |-> a.uid, calls |-> a.calls \cup {"validate"},
          resp |-> Resp("400", ErrorBody("Missing image data.", ""))]
    ELSE [start |-> TRUE, uid |-> a.uid, calls |-> a.calls \cup {"validate"},
          resp |-> NoResp]

V2CreateCharacterPair(authorization, data) ==
    LET context == onCall(authorization)
        auth == requireAuth(context) IN
    IF context.rejected
    THEN [start |-> FALSE, uid |-> "", resp |-> Rejected, calls |-> context.calls]
    ELSE IF ~V2GetAi.ok
    THEN [start |-> FALSE, uid |-> "", resp |-> Thrown(V2GetAi.error),
          calls |-> context.calls \cup {"getAi"}]
    ELSE IF ~auth.ok
    THEN [start |-> FALSE, uid |-> "", resp |-> Thrown(auth.error),
          calls |-> context.calls \cup {"getAi", "requireAuth"}]
    ELSE IF MissingImageData(data)
    THEN [start |-> FALSE, uid |-> auth.uid,
          resp |-> Thrown(HttpsError("invalid-argument",
                              "Missing image data for one or both characters.", "")),
          calls |-> context.calls \cup {"getAi", "requireAuth", "validate"}]
    ELSE [start |-> TRUE, uid |-> auth.uid, resp |-> NoResp,
          calls |-> context.calls \cup {"getAi", "requireAuth", "validate"}]

-----------------------------------------------------------------------------
(* The state machine *)

NoReq == [op |-> "none"]

\* a module variable declared with let and not yet assigned (app, firestore,
\* storage), or ai while it is null
NoHandle == 0

NoHandles == [app |-> NoHandle, firestore |-> NoHandle, storage |-> NoHandle,
              ai |-> NoHandle]

\* how many invocations the v1 process runs at a time
MaxInvocations == 2
Slots == 1 .. MaxInvocations

IdleInvocation ==
    [op |-> "none", out |-> "none", pc |-> "idle",
     seq |-> [t \in Sequences2 |-> "idle"], localAi |-> NoHandle]

\* the express and v2 deployments have no lazy handles and no concurrent
\* invocations
NotLazy ==
    /\ handles = NoHandles
    /\ invocations = [i \in Slots |-> IdleInvocation]
    /\ uses = {}

Init ==
    /\ NotLazy
    /\ backend \in Backends
    /\ apiKey \in BOOLEAN
    /\ profiles = <<>>
    /\ blobs = <<>>
    /\ clock = 1
    /\ nextId = 1
    /\ req = NoReq
    /\ resp = NoResp
    /\ calls = {}
    /\ blobReads = {}
    /\ synthesis = NoSynthesis
    /\ caught = NoCatch
    /\ issued = <<>>
    /\ tasks = IdleTasks

\* the profile analyzeAndSaveCharacter stores for the image at filePath when
\* the analysis answers with all three fields
EarlierProfile(uid, characterId, mimeType, createdAt) ==
    [userId |-> uid, characterName |-> JsonParse("{characterName,description,keywords}").characterName,
     description |-> JsonParse("{characterName,description,keywords}").description,
     keywords |-> JsonParse("{characterName,description,keywords}").keywords,
     imageUrl |-> getSignedUrl(FilePath(uid, characterId, mimeType)),
     createdAt |-> createdAt]

\* the backend starts over stores that are not empty: they hold what one
\* successful createCharacterPair of u1, for the images "QQ==" and "Qg==",
\* left there in an earlier run of the process
InitRestart ==
    /\ NotLazy
    /\ backend \in Backends
    /\ apiKey \in BOOLEAN
    /\ profiles = ("e1" :> EarlierProfile("u1", "e1", <<"image", "svg+xml">>, 1))
                  @@ ("e2" :> EarlierProfile("u1", "e2", <<"image", "svg+xml">>, 2))
    /\ blobs = (FilePath("u1", "e1", <<"image", "svg+xml">>)
                  :> [bytes |-> BufferFrom("QQ=="), contentType |-> <<"image", "svg+xml">>])
               @@ (FilePath("u1", "e2", <<"image", "svg+xml">>)
                  :> [bytes |-> BufferFrom("Qg=="), contentType |-> <<"image", "svg+xml">>])
    /\ clock = 3
    /\ nextId = 1
    /\ req = NoReq
    /\ resp = NoResp
    /\ calls = {}
    /\ blobReads = {}
    /\ synthesis = NoSynthesis
    /\ caught = NoCatch
    /\ issued = <<>>
    /\ tasks = IdleTasks

\* the backend starts over a profile store that holds a document of u1
\* written without imageUrl (by another writer of the collection); the code
\* reckons with such documents (!character?.imageUrl)
InitLegacy ==
    /\ NotLazy
    /\ backend \in Backends
    /\ apiKey \in BOOLEAN
    /\ profiles = ("e1" :> [EarlierProfile("u1", "e1", <<"image", "svg+xml">>, 1)
                              EXCEPT !.imageUrl = NoUrl])
    /\ blobs = <<>>
    /\ clock = 2
    /\ nextId = 1
    /\ req = NoReq
    /\ resp = NoResp
    /\ calls = {}
    /\ blobReads = {}
    /\ synthesis = NoSynthesis
    /\ caught = NoCatch
    /\ issued = <<>>
    /\ tasks = IdleTasks

\* no exchange is under way
Quiet == req = NoReq

\* no sequence of the request is still running
Settled == \A t \in Sequences2 : tasks[t].pc \in {"idle", "done", "failed"}

\* the count of <<issuer, call>> raised by one; the issuer is "handler" or
\* one of the two sequences
Bump(count, issuer, call) ==
    IF <<issuer, call>> \in DOMAIN count
    THEN [count EXCEPT ![<<issuer, call>>] = @ + 1]
    ELSE (<<issuer, call>> :> 1) @@ count

\* the counts of a handler body that made each call of made one time
OnceEach(made) == [k \in {<<"handler", call>> : call \in made} |-> 1]

\* sequence t issues call
Call(t, call) ==
    /\ calls' = calls \cup {call}
    /\ issued' = Bump(issued, t, call)

\* a handler that runs from the request to its end without touching the stores
Serve(request, outcome) ==
    /\ req' = request
    /\ resp' = outcome.resp
    /\ calls' = outcome.calls
    /\ blobReads' = outcome.reads
    /\ synthesis' = outcome.synthesis
    /\ caught' = outcome.caught
    /\ issued' = OnceEach(outcome.calls)
    /\ tasks' = IdleTasks
    /\ UNCHANGED <<backend, apiKey, profiles, blobs, clock, nextId>>
    /\ UNCHANGED lazy

GetCharacterLibrary ==
    /\ Quiet
    /\ \E authorization \in Authorizations, queryOk \in BOOLEAN,
          snapshot \in Perms(DOMAIN profiles) :
          Serve([op |-> "getCharacterLibrary", authorization |-> authorization,
                 queryOk |-> queryOk],
                IF backend = "express"
                THEN ExpressGetCharacterLibrary(authorization, snapshot, queryOk)
                ELSE V2GetCharacterLibrary(authorization, snapshot, queryOk))

GetCharacterById ==
    /\ Quiet
    /\ \E authorization \in Authorizations, characterId \in CharacterIds,
          getOk \in BOOLEAN :
          Serve([op |-> "getCharacterById", authorization |-> authorization,
                 characterId |-> characterId, getOk |-> getOk],
                IF backend = "express"
                THEN ExpressGetCharacterById(authorization, characterId, getOk)
                ELSE V2GetCharacterById(authorization, characterId, getOk))

GenerateCharacterVisualization ==
    /\ Quiet
    /\ \E authorization \in Authorizations, characterId \in CharacterIds,
          prompt \in Prompts, ai \in SynthesisOutcomes, forwards \in BOOLEAN :
          Serve([op |-> "generateCharacterVisualization",
                 authorization |-> authorization, characterId |-> characterId,
                 prompt |-> prompt, getOk |-> ai.failed # "get"],
                IF backend = "express"
                THEN ExpressGenerateCharacterVisualization(
                         authorization, characterId, prompt, ai, forwards)
                ELSE V2GenerateCharacterVisualization(
                         authorization, characterId, prompt, ai))

\* the paths a health probe asks for
HealthPaths == {"/", "/health", "/healthz"}

\* express: a GET request for a path no route is registered for. It passes
\* cors and express.json and falls through to the final handler of express,
\* which answers 404 whatever the credential is. The four app.post routes
\* are the only ones the application registers.
NoRoute(path) == Outcome(Resp("404", ErrorBody("Cannot GET " \o path, "")), {}, {})

HealthCheck ==
    /\ Quiet
    /\ backend = "express"
    /\ \E authorization \in Authorizations, path \in HealthPaths :
          Serve([op |-> "health", authorization |-> authorization, path |-> path],
                NoRoute(path))

\* mutant of StartedTasks: the identifier is drawn once for the request
\* and handed to both sequences
StartedTasksOneId(data) ==
    [t \in Sequences2 |->
        IF t = "A"
        THEN StartTask(data.charABase64, data.charAMimeType, AutoId(nextId))
        ELSE StartTask(data.charBBase64, data.charBMimeType, AutoId(nextId))]

\* the two sequences as createCharacterPair leaves them at its await: express
\* calls getAi() first thing inside each, before an identifier is drawn
StartedTasks(data) ==
    IF backend = "express" /\ ~ExpressGetAi.ok
    THEN [t \in Sequences2 |-> Reject(IdleTask, ExpressGetAi.error)]
    ELSE [t \in Sequences2 |->
            IF t = "A"
            THEN StartTask(data.charABase64, data.charAMimeType, AutoId(nextId))
            ELSE StartTask(data.charBBase64, data.charBMimeType, AutoId(nextId + 1))]

CreateCharacterPair ==
    /\ Quiet
    /\ \E authorization \in Authorizations,
          charABase64, charBBase64 \in Payloads,
          charAMimeType, charBMimeType \in MimeTypes :
          LET data == [charABase64 |-> charABase64, charAMimeType |-> charAMimeType,
                       charBBase64 |-> charBBase64, charBMimeType |-> charBMimeType]
              h == IF backend = "express"
                   THEN ExpressCreateCharacterPair(authorization, data)
                   ELSE V2CreateCharacterPair(authorization, data)
              started == StartedTasks(data)
              saving == started["A"].pc = "save"
          IN
          /\ h.start /\ saving => nextId + 1 <= 2 * MaxCreates
          /\ req' = [op |-> "createCharacterPair", authorization |-> authorization,
                     data |-> data, uid |-> h.uid]
          /\ blobReads' = {}
          /\ IF h.start
             THEN /\ tasks' = started
                  /\ resp' = PromiseAll(started, NoResp)
                  /\ caught' = PromiseAllCaught(started, NoCatch)
                  /\ calls' = h.calls \cup (IF backend = "express" THEN {"getAi"} ELSE {})
                                      \cup (IF saving THEN {"blob.save"} ELSE {})
                  /\ issued' = OnceEach(h.calls)
                        @@ [k \in {<<t, call>> : t \in Sequences2,
                                      call \in (IF backend = "express" THEN {"getAi"} ELSE {})
                                           \cup (IF saving THEN {"blob.save"} ELSE {})}
                              |-> 1]
                  /\ nextId' = IF saving THEN nextId + 2 ELSE nextId
             ELSE /\ tasks' = IdleTasks
                  /\ resp' = h.resp
                  /\ caught' = NoCatch
                  /\ calls' = h.calls
                  /\ issued' = OnceEach(h.calls)
                  /\ nextId' = nextId
          /\ UNCHANGED <<backend, apiKey, profiles, blobs, clock, synthesis>>
          /\ UNCHANGED lazy

\* a step of sequence t: the sequence moves on, and createCharacterPair,
\* which awaits Promise.all, responds if this step settles it
Step(t, task) ==
    /\ tasks' = [tasks EXCEPT ![t] = task]
    /\ resp' = PromiseAll([tasks EXCEPT ![t] = task], resp)
    /\ caught' = PromiseAllCaught([tasks EXCEPT ![t] = task], caught)
    /\ UNCHANGED <<backend, apiKey, nextId, req, blobReads, synthesis>>
    /\ UNCHANGED lazy

\* mutant of SaveDone: a failed save is tried a second time
SaveDoneRetrying(t) ==
    /\ tasks[t].pc = "save"
    /\ \E ok \in BOOLEAN :
          IF ok
          THEN /\ blobs' = (FilePath(req.uid, tasks[t].characterId, tasks[t].mimeType)
                              :> SavedBlob(tasks[t])) @@ blobs
               /\ Call(t, "blob.getSignedUrl")
               /\ Step(t, [tasks[t] EXCEPT !.pc = "url"])
          ELSE IF issued[<<t, "blob.save">>] < 2
          THEN /\ UNCHANGED blobs
               /\ Call(t, "blob.save")
               /\ Step(t, tasks[t])
          ELSE /\ UNCHANGED <<blobs, calls, issued>>
               /\ Step(t, Reject(tasks[t], RawError(BlobError)))
    /\ UNCHANGED <<profiles, clock>>

\* mutant of SaveDone: a failed save is passed over and the sequence goes on
SaveDoneSwallowing(t) ==
    /\ tasks[t].pc = "save"
    /\ \E ok \in BOOLEAN :
          /\ blobs' = IF ok
                       THEN (FilePath(req.uid, tasks[t].characterId, tasks[t].mimeType)
                               :> SavedBlob(tasks[t])) @@ blobs
                       ELSE blobs
          /\ Call(t, "blob.getSignedUrl")
          /\ Step(t, [tasks[t] EXCEPT !.pc = "url"])
    /\ UNCHANGED <<profiles, clock>>

\* await file.save(...)
SaveDone(t) ==
    /\ tasks[t].pc = "save"
    /\ \E ok \in BOOLEAN :
          IF ok
          THEN /\ blobs' = (FilePath(req.uid, tasks[t].characterId, tasks[t].mimeType)
                              :> SavedBlob(tasks[t])) @@ blobs
               /\ Call(t, "blob.getSignedUrl")
               /\ Step(t, [tasks[t] EXCEPT !.pc = "url"])
          ELSE /\ UNCHANGED <<blobs, calls, issued>>
               /\ Step(t, Reject(tasks[t], RawError(BlobError)))
    /\ UNCHANGED <<profiles, clock>>

\* await file.getSignedUrl(...)
SignedUrlDone(t) ==
    /\ tasks[t].pc = "url"
    /\ \E ok \in BOOLEAN :
          IF ok
          THEN /\ Call(t, "ai.generateContent")
               /\ Step(t, AfterSignedUrl(tasks[t], req.uid))
          ELSE /\ UNCHANGED <<calls, issued>>
               /\ Step(t, Reject(tasks[t], RawError(BlobError)))
    /\ UNCHANGED <<profiles, blobs, clock>>

\* await localAi.models.generateContent(...), up to the start of the write
AnalysisDone(t) ==
    /\ tasks[t].pc = "ai"
    /\ \E out \in AnalysisOutcomes :
          LET task == AfterAnalysis(tasks[t], req.uid, out, backend = "express") IN
          /\ IF task.pc = "set" THEN Call(t, "store.set") ELSE UNCHANGED <<calls, issued>>
          /\ Step(t, task)
    /\ UNCHANGED <<profiles, blobs, clock>>

\* mutant of SetDone: a failed write takes back the profile the other
\* sequence has written
SetDoneCompensating(t) ==
    /\ tasks[t].pc = "set"
    /\ \E ok \in BOOLEAN :
          IF ok
          THEN /\ profiles' = (tasks[t].characterId :> StoredDocument(tasks[t].newCharacter))
                              @@ profiles
               /\ clock' = clock + 1
               /\ IF backend = "express" THEN Call(t, "store.get")
                  ELSE UNCHANGED <<calls, issued>>
               /\ Step(t, IF backend = "express" THEN ExpressAfterSet(tasks[t])
                          ELSE V2AfterSet(tasks[t]))
          ELSE /\ profiles' = [id \in DOMAIN profiles \
                                 {tasks[u].characterId : u \in Sequences2} |-> profiles[id]]
               /\ UNCHANGED <<clock, calls, issued>>
               /\ Step(t, Reject(tasks[t], RawError(StoreError)))
    /\ UNCHANGED blobs

\* await firestore.collection("user_characters").doc(characterId).set(newCharacter)
SetDone(t) ==
    /\ tasks[t].pc = "set"
    /\ \E ok \in BOOLEAN :
          IF ok
          THEN /\ profiles' = (tasks[t].characterId :> StoredDocument(tasks[t].newCharacter))
                              @@ profiles
               /\ clock' = clock + 1
               /\ IF backend = "express" THEN Call(t, "store.get")
                  ELSE UNCHANGED <<calls, issued>>
               /\ Step(t, IF backend = "express" THEN ExpressAfterSet(tasks[t])
                          ELSE V2AfterSet(tasks[t]))
          ELSE /\ UNCHANGED <<profiles, clock, calls, issued>>
               /\ Step(t, Reject(tasks[t], RawError(StoreError)))
    /\ UNCHANGED blobs

\* express: await firestore.collection("user_characters").doc(characterId).get()
GetDone(t) ==
    /\ tasks[t].pc = "get"
    /\ \E ok \in BOOLEAN :
          Step(t, IF ok THEN ExpressAfterGet(tasks[t], profiles[tasks[t].characterId])
                  ELSE Reject(tasks[t], RawError(StoreError)))
    /\ UNCHANGED <<profiles, blobs, clock, calls, issued>>

\* the exchange is over: the response went out (or the client gave up on a
\* request that gets none) and every sequence of the request has settled
EndOfExchange ==
    /\ req # NoReq
    /\ Settled
    /\ req' = NoReq
    /\ resp' = NoResp
    /\ calls' = {}
    /\ issued' = <<>>
    /\ blobReads' = {}
    /\ synthesis' = NoSynthesis
    /\ caught' = NoCatch
    /\ tasks' = IdleTasks
    /\ UNCHANGED <<backend, apiKey, profiles, blobs, clock, nextId>>
    /\ UNCHANGED lazy

Next ==
    \/ GetCharacterLibrary
    \/ GetCharacterById
    \/ CreateCharacterPair
    \/ GenerateCharacterVisualization
    \/ HealthCheck
    \/ \E t \in Sequences2 : SaveDone(t)
    \/ \E t \in Sequences2 : SignedUrlDone(t)
    \/ \E t \in Sequences2 : AnalysisDone(t)
    \/ \E t \in Sequences2 : SetDone(t)
    \/ \E t \in Sequences2 : GetDone(t)
    \/ EndOfExchange

Spec == Init /\ [][Next]_vars

\* the backend restarted over the stores an earlier run left
SpecRestart == InitRestart /\ [][Next]_vars

\* the backend over a store that holds a document without imageUrl
SpecLegacy == InitLegacy /\ [][Next]_vars

-----------------------------------------------------------------------------
(* The v1 deployment: lazy initialization and concurrent invocations *)

\* mutant of initialize: the handles are created on every call
initializeUnguarded(hs) ==
    [app |-> hs.app + 1, firestore |-> hs.firestore + 1, storage |-> hs.storage + 1,
     ai |-> IF apiKey THEN hs.ai + 1 ELSE hs.ai]

\* initialize(): the module variables after the call. A handle's value is
\* the number of the instance it holds, NoHandle while it holds none.
initialize(hs) ==
    IF hs.app = NoHandle
    THEN [app |-> hs.app + 1, firestore |-> hs.firestore + 1,
          storage |-> hs.storage + 1,
          ai |-> IF apiKey THEN hs.ai + 1 ELSE hs.ai]
    ELSE hs

V1Ops == {"getCharacterLibrary", "createCharacterPair",
          "generateCharacterVisualization"}

\* an invocation that threw before its first await
Threw == [IdleInvocation EXCEPT !.out = "threw", !.pc = "end"]

\* the handler from initialize() to its first await: the invocation it
\* leaves and the handles it has used on the way. auth: context.auth is
\* there; valid: the payload has its fields.
V1Start(op, auth, valid, hs) ==
    IF op = "getCharacterLibrary"
    THEN IF ~auth THEN [inv |-> [Threw EXCEPT !.op = op], used |-> {}]
         ELSE [inv |-> [IdleInvocation EXCEPT !.op = op, !.out = "pending",
                                              !.pc = "query"],
               used |-> {<<"firestore", hs.firestore>>}]
    ELSE IF hs.ai = NoHandle \/ ~auth \/ ~valid
    THEN [inv |-> [Threw EXCEPT !.op = op], used |-> {}]
    ELSE IF op = "createCharacterPair"
    THEN [inv |-> [IdleInvocation EXCEPT !.op = op, !.out = "pending", !.pc = "pair",
                                         !.seq = [t \in Sequences2 |-> "save"],
                                         !.localAi = hs.ai],
          used |-> {<<"firestore", hs.firestore>>, <<"storage", hs.storage>>}]
    ELSE [inv |-> [IdleInvocation EXCEPT !.op = op, !.out = "pending", !.pc = "get",
                                         !.localAi = hs.ai],
          used |-> {<<"firestore", hs.firestore>>}]

\* the variables of the v1 process after a step of invocation i
V1Step(i, inv, used) ==
    /\ invocations' = [invocations EXCEPT ![i] = inv]
    /\ uses' = uses \cup used
    /\ UNCHANGED <<handles, eager>>

\* a request arrives in a free slot of the process
V1Invoke(i) ==
    /\ invocations[i].pc = "idle"
    /\ \E op \in V1Ops, auth, valid \in BOOLEAN :
          LET hs == initialize(handles)
              start == V1Start(op, auth, valid, hs)
          IN /\ handles' = hs
             /\ invocations' = [invocations EXCEPT ![i] = start.inv]
             /\ uses' = uses \cup start.used
    /\ UNCHANGED eager

\* await firestore.collection(...).where(...).get()
V1QueryDone(i) ==
    /\ invocations[i].pc = "query"
    /\ \E ok \in BOOLEAN :
          V1Step(i, [invocations[i] EXCEPT !.pc = "end",
                        !.out = IF ok THEN "returned" ELSE "threw"], {})

\* the invocation after sequence t of its createCharacterPair moved to pc:
\* Promise.all throws on the first failure and returns when both are done
V1Pair(inv, t, pc) ==
    LET seq == [inv.seq EXCEPT ![t] = pc] IN
    [inv EXCEPT !.seq = seq,
                !.out = IF inv.out # "pending" THEN inv.out
                        ELSE IF pc = "failed" THEN "threw"
                        ELSE IF \A u \in Sequences2 : seq[u] = "done" THEN "returned"
                        ELSE "pending",
                !.pc = IF \A u \in Sequences2 : seq[u] \in {"done", "failed"}
                       THEN "end" ELSE "pair"]

\* await file.save(...)
V1SaveDone(i, t) ==
    /\ invocations[i].seq[t] = "save"
    /\ \E ok \in BOOLEAN :
          V1Step(i, V1Pair(invocations[i], t, IF ok THEN "url" ELSE "failed"), {})

\* await file.getSignedUrl(...), then localAi.models.generateContent(...)
V1SignedUrlDone(i, t) ==
    /\ invocations[i].seq[t] = "url"
    /\ \E ok \in BOOLEAN :
          V1Step(i, V1Pair(invocations[i], t, IF ok THEN "ai" ELSE "failed"),
                 IF ok THEN {<<"ai", invocations[i].localAi>>} ELSE {})

\* await localAi.models.generateContent(...), JSON.parse, then
\* firestore.collection(...).doc(characterId).set(...)
V1AnalysisDone(i, t) ==
    /\ invocations[i].seq[t] = "ai"
    /\ \E ok \in BOOLEAN :
          V1Step(i, V1Pair(invocations[i], t, IF ok THEN "set" ELSE "failed"),
                 IF ok THEN {<<"firestore", handles.firestore>>} ELSE {})

\* await firestore.collection(...).doc(characterId).set(newCharacter)
V1SetDone(i, t) ==
    /\ invocations[i].seq[t] = "set"
    /\ \E ok \in BOOLEAN :
          V1Step(i, V1Pair(invocations[i], t, IF ok THEN "done" ELSE "failed"), {})

\* await firestore.collection(...).doc(characterId).get(); found: the
\* document is there, is the caller's and has an imageUrl; then
\* storage.bucket().file(filePath).getMetadata()
V1GetDone(i) ==
    /\ invocations[i].pc = "get"
    /\ \E found \in BOOLEAN :
          IF found
          THEN V1Step(i, [invocations[i] EXCEPT !.pc = "metadata"],
                      {<<"storage", handles.storage>>})
          ELSE V1Step(i, [invocations[i] EXCEPT !.pc = "end", !.out = "threw"], {})

\* await file.getMetadata()
V1MetadataDone(i) ==
    /\ invocations[i].pc = "metadata"
    /\ \E ok \in BOOLEAN :
          V1Step(i, IF ok THEN [invocations[i] EXCEPT !.pc = "download"]
                    ELSE [invocations[i] EXCEPT !.pc = "end", !.out = "threw"], {})

\* await file.download(), then localAi.models.generateContent(...)
V1DownloadDone(i) ==
    /\ invocations[i].pc = "download"
    /\ \E ok \in BOOLEAN :
          IF ok
          THEN V1Step(i, [invocations[i] EXCEPT !.pc = "ai"],
                      {<<"ai", invocations[i].localAi>>})
          ELSE V1Step(i, [invocations[i] EXCEPT !.pc = "end", !.out = "threw"], {})

\* await localAi.models.generateContent(...) of the visualization
V1SynthesisDone(i) ==
    /\ invocations[i].pc = "ai"
    /\ \E ok \in BOOLEAN :
          V1Step(i, [invocations[i] EXCEPT !.pc = "end",
                        !.out = IF ok THEN "returned" ELSE "threw"], {})

\* the invocation is over and its slot is free for the next request
V1Return(i) ==
    /\ invocations[i].pc = "end"
    /\ V1Step(i, IdleInvocation, {})

InitV1 ==
    /\ backend = "v1"
    /\ apiKey \in BOOLEAN
    /\ profiles = <<>>
    /\ blobs = <<>>
    /\ clock = 1
    /\ nextId = 1
    /\ req = NoReq
    /\ resp = NoResp
    /\ calls = {}
    /\ blobReads = {}
    /\ synthesis = NoSynthesis
    /\ caught = NoCatch
    /\ issued = <<>>
    /\ tasks = IdleTasks
    /\ handles = NoHandles
    /\ invocations = [i \in Slots |-> IdleInvocation]
    /\ uses = {}

NextV1 ==
    \E i \in Slots :
        \/ V1Invoke(i)
        \/ V1QueryDone(i)
        \/ \E t \in Sequences2 : V1SaveDone(i, t)
        \/ \E t \in Sequences2 : V1SignedUrlDone(i, t)
        \/ \E t \in Sequences2 : V1AnalysisDone(i, t)
        \/ \E t \in Sequences2 : V1SetDone(i, t)
        \/ V1GetDone(i)
        \/ V1MetadataDone(i)
        \/ V1DownloadDone(i)
        \/ V1SynthesisDone(i)
        \/ V1Return(i)

\* the v1 process, serving its requests concurrently
SpecV1 == InitV1 /\ [][NextV1]_vars

-----------------------------------------------------------------------------
(* Vocabulary of the properties *)

\* the user the credential of req identifies, "" if it identifies none
Caller ==
    IF req # NoReq /\ req.authorization.scheme = "Bearer"
       /\ req.authorization.token \in Users
    THEN req.authorization.token ELSE ""

\* the client-facing code of the error taxonomy a response status stands for:
\* the HTTP status of the express backend, the HttpsError code of the callable
Taxonomy(status) ==
    CASE status \in {"200", "ok"} -> "OK"
      [] status \in {"401", "unauthenticated"} -> "Unauthenticated"
      [] status \in {"403", "permission-denied"} -> "PermissionDenied"
      [] status \in {"400", "invalid-argument"} -> "InvalidArgument"
      [] status \in {"404", "not-found"} -> "NotFound"
      [] status = "failed-precondition" -> "FailedPrecondition"
      [] status \in {"500", "internal"} -> "Internal"
      [] OTHER -> "none"

Succeeded == Taxonomy(resp.status) = "OK"

\* the calls that reach the profile store, the blob store or the AI service
StoreCalls == {"store.query", "store.get", "store.set"}
BlobCalls == {"blob.save", "blob.getSignedUrl", "blob.getMetadata", "blob.download"}
AiCalls == {"ai.generateContent"}

\* req names a profile that exists and belongs to somebody else
ForeignProfile ==
    /\ req.op \in {"getCharacterById", "generateCharacterVisualization"}
    /\ Caller \in Users
    /\ req.characterId \in DOMAIN profiles
    /\ profiles[req.characterId].userId # Caller

\* req names, by a non-empty identifier, a profile that does not exist
AbsentProfile ==
    /\ req.op \in {"getCharacterById", "generateCharacterVisualization"}
    /\ Caller \in Users
    /\ req.characterId # ""
    /\ req.characterId \notin DOMAIN profiles

\* the stored profiles of the caller
OwnedByCaller == {id \in DOMAIN profiles : profiles[id].userId = Caller}

\* a visualization request that passes validation on a configured backend
Visualizable ==
    req.op = "generateCharacterVisualization" => (req.prompt # "" /\ apiKey)

-----------------------------------------------------------------------------
(* C1 *)

\* the blob a signed URL of the bucket points to: the storage service
\* serves the object named by the decoded path after the bucket
BlobOfUrl(url) ==
    [i \in 1..(Len(url.pathname) - 2) |-> DecodeURIComponent(url.pathname[i + 2])]

\* C1: no successful response to caller u contains or derives from a profile
\* (or the blob of a profile) owned by somebody else: the library holds only
\* profiles of u, getCharacterById and createCharacterPair return only
\* profiles of u, and generateCharacterVisualization reads only blobs under
\* the upload directory of u that a profile of u points to.
C1_OwnerIsolation ==
    /\ Succeeded => Caller \in Users
    /\ (req.op = "getCharacterLibrary" /\ Succeeded) =>
          \A i \in 1..Len(resp.body.characters) :
             /\ resp.body.characters[i].userId = Caller
             /\ profiles[resp.body.characters[i].id].userId = Caller
    /\ (req.op = "getCharacterById" /\ Succeeded) =>
          /\ resp.body.character.userId = Caller
          /\ profiles[resp.body.character.id].userId = Caller
    /\ (req.op = "createCharacterPair" /\ Succeeded) =>
          /\ resp.body.characterA.userId = Caller
          /\ resp.body.characterB.userId = Caller
    /\ req.op = "generateCharacterVisualization" =>
          \A path \in blobReads :
             /\ path[2] = Caller
             /\ \E id \in DOMAIN profiles :
                   /\ profiles[id].userId = Caller
                   /\ BlobOfUrl(profiles[id].imageUrl) = path

\* somebody else's profile is in the store while the caller's library is served
C1_Witness ==
    /\ req.op = "getCharacterLibrary"
    /\ Succeeded
    /\ \E id \in DOMAIN profiles : profiles[id].userId # Caller

-----------------------------------------------------------------------------
(* C2 *)

\* what a response that hands out nothing of a profile looks like: an error
\* (or no response at all), no blob read, no blob or AI call made
NothingHandedOut ==
    /\ ~Succeeded
    /\ resp.body.kind \in {"error", "none"}
    /\ blobReads = {}
    /\ calls \cap (BlobCalls \cup AiCalls) = {}

-----------------------------------------------------------------------------
(* C3 *)

\* C3 as claimed: for a non-empty identifier that names no profile both
\* operations fail with NotFound, and generateCharacterVisualization makes
\* no blob or AI call (stated here for a configured backend whose document
\* read succeeds).
C3_Original ==
    (AbsentProfile /\ req.getOk /\ apiKey) =>
        /\ Taxonomy(resp.status) = "NotFound"
        /\ calls \cap (BlobCalls \cup AiCalls) = {}

\* C3, amended: for a non-empty identifier that names no profile no blob or
\* AI call is made; getCharacterById fails with NotFound when the document
\* read succeeds, and generateCharacterVisualization does so when moreover
\* the prompt is non-empty and the AI client is configured.
C3_AbsentIsNotFound ==
    AbsentProfile =>
        /\ calls \cap (BlobCalls \cup AiCalls) = {}
        /\ blobReads = {}
        /\ (req.getOk /\ Visualizable) => Taxonomy(resp.status) = "NotFound"

\* a well-formed visualization request for an absent profile was refused
C3_Witness ==
    /\ AbsentProfile
    /\ req.op = "generateCharacterVisualization"
    /\ req.getOk /\ Visualizable
    /\ Taxonomy(resp.status) = "NotFound"

-----------------------------------------------------------------------------
(* C4 *)

\* C4: an authenticated createCharacterPair request that lacks one of its
\* four fields fails with InvalidArgument, whether or not the AI client is
\* configured, makes no call to a store or to the AI service and starts
\* neither sequence.
C4_Original ==
    (req.op = "createCharacterPair" /\ Caller \in Users /\ MissingImageData(req.data)) =>
        /\ Taxonomy(resp.status) = "InvalidArgument"
        /\ calls \cap (StoreCalls \cup BlobCalls \cup AiCalls) = {}
        /\ tasks = IdleTasks

-----------------------------------------------------------------------------
(* C5 *)

\* the statuses the identity verifier rejects a request with
VerifierStatuses == {"401", "403", "unauthenticated"}

\* C5: a request to one of the four operations without a valid credential
\* is rejected by the identity
\* verifier whatever its body and the AI configuration are, and nothing but
\* the verification happens for it: no validation, no AI-configuration
\* check, no store, blob or AI call.
C5_Original ==
    (req # NoReq /\ req.op # "health" /\ Caller = "") =>
        /\ resp.status \in VerifierStatuses
        /\ calls \subseteq {"auth.verifyIdToken", "requireAuth"}

-----------------------------------------------------------------------------
(* C6 *)

\* the messages of the identity verifier's rejections
VerifierMessages ==
    {"Unauthorized: No token provided.", "Unauthorized: Invalid token.",
     "Unauthenticated", "The function must be called while authenticated."}

\* C6: every rejection by the identity verifier, for a missing or malformed
\* credential as for an invalid or expired one, carries the code
\* Unauthenticated.
C6_Original ==
    (req # NoReq /\ Caller = "" /\ resp.body.kind = "error"
     /\ resp.body.error \in VerifierMessages) =>
        Taxonomy(resp.status) = "Unauthenticated"

-----------------------------------------------------------------------------
(* C7 *)

\* character, as returned, is a stored profile of the caller whose imageUrl
\* points to a stored blob holding the bytes of the payload base64
ReturnedFor(character, base64) ==
    /\ character.id # ""
    /\ character.userId = Caller
    /\ character.id \in DOMAIN profiles
    /\ profiles[character.id].userId = Caller
    /\ profiles[character.id].imageUrl = character.imageUrl
    /\ character.imageUrl.pathname[2] = Bucket
    /\ BlobOfUrl(character.imageUrl) \in DOMAIN blobs
    /\ blobs[BlobOfUrl(character.imageUrl)].bytes = BufferFrom(base64)

\* C7: when every step of both sequences of a createCharacterPair request
\* has succeeded, the response is a success carrying exactly two profiles,
\* each with a non-empty id, the caller as owner and an imageUrl that points
\* to a stored blob with the bytes of the corresponding input image, and
\* both profiles are in the profile store.
C7_PairCreated ==
    (req.op = "createCharacterPair" /\ \A t \in Sequences2 : tasks[t].pc = "done") =>
        /\ Succeeded
        /\ resp.body.kind = "pair"
        /\ resp.body.characterA.id # resp.body.characterB.id
        /\ ReturnedFor(resp.body.characterA, req.data.charABase64)
        /\ ReturnedFor(resp.body.characterB, req.data.charBBase64)

\* both sequences of a request with two different images have succeeded
C7_Witness ==
    /\ req.op = "createCharacterPair"
    /\ \A t \in Sequences2 : tasks[t].pc = "done"
    /\ req.data.charABase64 # req.data.charBBase64
    /\ Succeeded

-----------------------------------------------------------------------------
(* C8 *)

\* C8: as soon as one of the two sequences of a createCharacterPair request
\* has failed, at whatever step, the response is the error Internal and
\* carries no profile, whatever the other sequence does.
C8_OneFailureFailsAll ==
    (req.op = "createCharacterPair" /\ \E t \in Sequences2 : tasks[t].pc = "failed") =>
        /\ Taxonomy(resp.status) = "Internal"
        /\ resp.body.kind = "error"

\* one sequence has succeeded, the other has failed
C8_Witness ==
    /\ req.op = "createCharacterPair"
    /\ \E t, u \in Sequences2 : tasks[t].pc = "done" /\ tasks[u].pc = "failed"
    /\ Taxonomy(resp.status) = "Internal"

-----------------------------------------------------------------------------
(* C9 *)

\* C9: no step of any operation deletes or changes a profile or a blob that
\* is stored: what one sequence has persisted stays as it is when the other
\* sequence fails, and what was stored before the request stays as well.
C9_NoCompensation ==
    [][/\ \A id \in DOMAIN profiles :
             id \in DOMAIN profiles' /\ profiles'[id] = profiles[id]
       /\ \A path \in DOMAIN blobs :
             path \in DOMAIN blobs' /\ blobs'[path] = blobs[path]]_vars

\* a failed createCharacterPair request has settled and exactly one profile
\* of it is in the store
C9_Witness ==
    /\ req.op = "createCharacterPair"
    /\ Settled
    /\ Taxonomy(resp.status) = "Internal"
    /\ \E t, u \in Sequences2 :
          /\ tasks[t].pc = "failed"
          /\ tasks[t].characterId \notin DOMAIN profiles
          /\ tasks[u].pc = "done"
          /\ tasks[u].characterId \in DOMAIN profiles

-----------------------------------------------------------------------------
(* C10 *)

\* C10: in a successful createCharacterPair response characterA is the
\* profile of the sequence that was given the first image and characterB
\* that of the sequence given the second, whichever finished first: the blob
\* of each holds the bytes and the content type of its own input.
C10_PairedByPosition ==
    (req.op = "createCharacterPair" /\ Succeeded) =>
        /\ tasks["A"].base64 = req.data.charABase64
        /\ tasks["A"].mimeType = req.data.charAMimeType
        /\ tasks["B"].base64 = req.data.charBBase64
        /\ tasks["B"].mimeType = req.data.charBMimeType
        /\ resp.body.characterA.id = tasks["A"].characterId
        /\ resp.body.characterB.id = tasks["B"].characterId
        /\ blobs[BlobOfUrl(resp.body.characterA.imageUrl)] =
              [bytes |-> BufferFrom(req.data.charABase64),
               contentType |-> req.data.charAMimeType]
        /\ blobs[BlobOfUrl(resp.body.characterB.imageUrl)] =
              [bytes |-> BufferFrom(req.data.charBBase64),
               contentType |-> req.data.charBMimeType]

\* a successful response for two different images whose second profile was
\* written before the first
C10_Witness ==
    /\ req.op = "createCharacterPair"
    /\ Succeeded
    /\ req.data.charABase64 # req.data.charBBase64
    /\ profiles[resp.body.characterB.id].createdAt
          < profiles[resp.body.characterA.id].createdAt

-----------------------------------------------------------------------------
(* C11 *)

\* the profiles of the caller that the response of req does not carry
EarlierOfCaller ==
    {id \in DOMAIN profiles :
        /\ profiles[id].userId = Caller
        /\ id \notin {resp.body.characterA.id, resp.body.characterB.id}}

\* the blob the stored profile id points to
BlobOf(id) == BlobOfUrl(profiles[id].imageUrl)

\* req is a successful createCharacterPair of the caller who owns the earlier
\* pair, for the very images of that pair, in the same positions
SameCallAgain ==
    /\ req.op = "createCharacterPair"
    /\ Succeeded
    /\ EarlierIds \subseteq DOMAIN profiles
    /\ \A id \in EarlierIds : profiles[id].userId = Caller
    /\ BufferFrom(req.data.charABase64) = blobs[BlobOf("e1")].bytes
    /\ BufferFrom(req.data.charBBase64) = blobs[BlobOf("e2")].bytes

\* C11: createCharacterPair is not idempotent. When a caller whose earlier
\* successful call stored a pair calls again with the same two images and
\* succeeds, the store holds four profiles of the caller with four pairwise
\* distinct ids, pointing to four distinct blobs: the earlier pair is still
\* there, the response carries two further profiles, and the new blobs hold
\* the same bytes as the earlier ones.
C11_NotIdempotent ==
    SameCallAgain =>
        LET new == {resp.body.characterA.id, resp.body.characterB.id}
            all == EarlierIds \cup new
        IN
        /\ EarlierIds \subseteq EarlierOfCaller
        /\ Cardinality(new) = 2
        /\ Cardinality(all) = 4
        /\ all \subseteq DOMAIN profiles
        /\ \A id \in all : profiles[id].userId = Caller
        /\ Cardinality({BlobOf(id) : id \in all}) = 4
        /\ {BlobOf(id) : id \in all} \subseteq DOMAIN blobs
        /\ \A id \in EarlierOfCaller : BlobOf(id) \notin {BlobOf(n) : n \in new}
        /\ blobs[BlobOf(resp.body.characterA.id)] = blobs[BlobOf("e1")]
        /\ blobs[BlobOf(resp.body.characterB.id)] = blobs[BlobOf("e2")]

\* the second call with the same images has succeeded
C11_Witness ==
    /\ SameCallAgain
    /\ Cardinality(OwnedByCaller) = 4
    /\ Cardinality(DOMAIN blobs) = 4

-----------------------------------------------------------------------------
(* C12 *)

\* C12: whatever the order in which the store hands back the caller's
\* profiles, the sequence a successful getCharacterLibrary responds with is
\* sorted by createdAt, most recent first.
C12_Original ==
    (req.op = "getCharacterLibrary" /\ Succeeded) =>
        \A i, j \in 1..Len(resp.body.characters) :
           i < j => resp.body.characters[i].createdAt >= resp.body.characters[j].createdAt

-----------------------------------------------------------------------------
(* C13 *)

\* C13: a getCharacterLibrary request of an authenticated caller whose store
\* query succeeds is answered with success, and the answer holds every
\* stored profile of the caller exactly once, each as the stored document
\* with its document id attached; the profiles an earlier successful
\* createCharacterPair of the caller created are among them.
C13_LibraryComplete ==
    (req.op = "getCharacterLibrary" /\ Caller \in Users /\ req.queryOk) =>
        LET characters == resp.body.characters IN
        /\ Succeeded
        /\ resp.body.kind = "characters"
        /\ Len(characters) = Cardinality(OwnedByCaller)
        /\ {characters[i].id : i \in 1..Len(characters)} = OwnedByCaller
        /\ \A i \in 1..Len(characters) :
              characters[i] = WithId(characters[i].id, profiles[characters[i].id])
        /\ Caller = "u1" => EarlierIds \subseteq {characters[i].id : i \in 1..Len(characters)}

\* the library of a caller who owns the earlier pair and a pair created in
\* this run is served, the store handing back the newest profile first
C13_Witness ==
    /\ req.op = "getCharacterLibrary"
    /\ Succeeded
    /\ Len(resp.body.characters) = 4
    /\ resp.body.characters[1].id = "c2"

-----------------------------------------------------------------------------
(* C14 *)

\* C14: an authenticated generateCharacterVisualization request whose
\* characterId or prompt is missing or empty fails with InvalidArgument,
\* whether or not the AI client is configured, and no profile-store read,
\* blob-store read or AI call is made for it.
C14_Original ==
    (/\ req.op = "generateCharacterVisualization"
     /\ Caller \in Users
     /\ (req.characterId = "" \/ req.prompt = "")) =>
        /\ Taxonomy(resp.status) = "InvalidArgument"
        /\ calls \cap (StoreCalls \cup BlobCalls \cup AiCalls) = {}
        /\ blobReads = {}

-----------------------------------------------------------------------------
(* C15 *)

\* the positions of the parts of a synthesis response that carry an inline
\* image payload
InlineImages(parts) ==
    {i \in 1..Len(parts) : parts[i].inlineData /\ parts[i].data # ""}

\* the first inline image payload of a synthesis response that has one
FirstInlineImage(parts) ==
    parts[CHOOSE i \in InlineImages(parts) : \A j \in InlineImages(parts) : i <= j].data

\* C15: when generateCharacterVisualization gets as far as the synthesis
\* call, for a profile of the caller whose blob was read, the client is sent
\* the bytes and the content type of the stored blob together with the
\* prompt; and when the synthesis response carries an inline image payload,
\* the request succeeds with exactly the first inline image payload of it.
C15_Original ==
    (req.op = "generateCharacterVisualization" /\ synthesis.called) =>
        /\ req.characterId \in OwnedByCaller
        /\ BufferFrom(synthesis.data) = blobs[BlobOf(req.characterId)].bytes
        /\ synthesis.mimeType = blobs[BlobOf(req.characterId)].contentType
        /\ synthesis.text = req.prompt
        /\ (synthesis.ok /\ InlineImages(synthesis.parts) # {}) =>
              /\ Succeeded
              /\ resp.body.kind = "image"
              /\ resp.body.imageBase64 = FirstInlineImage(synthesis.parts)

-----------------------------------------------------------------------------
(* C16 *)

\* a well-formed visualization request of an authenticated caller, on a
\* configured backend, for a profile the caller owns, the document read
\* having succeeded: existence and ownership are confirmed
OwnershipConfirmed ==
    /\ req.op = "generateCharacterVisualization"
    /\ Caller \in Users
    /\ apiKey
    /\ req.prompt # ""
    /\ req.getOk
    /\ req.characterId \in OwnedByCaller

-----------------------------------------------------------------------------
(* C17 *)

\* req is a well-formed request of an authenticated caller for one of the
\* two operations that need the AI client
NeedsAi ==
    /\ Caller \in Users
    /\ \/ req.op = "createCharacterPair" /\ ~MissingImageData(req.data)
       \/ /\ req.op = "generateCharacterVisualization"
          /\ req.characterId # "" /\ req.prompt # ""

\* C17: on a backend without API key every well-formed createCharacterPair
\* and generateCharacterVisualization request of an authenticated caller
\* fails with FailedPrecondition, while getCharacterLibrary and
\* getCharacterById never consult the AI configuration.
C17_Original ==
    /\ (~apiKey /\ NeedsAi) => Taxonomy(resp.status) = "FailedPrecondition"
    /\ req.op \in {"getCharacterLibrary", "getCharacterById"} =>
          ("getAi" \notin calls /\ Taxonomy(resp.status) # "FailedPrecondition")

-----------------------------------------------------------------------------
(* C18 *)

\* C18: when the guarded section of a handler raises an error, the caller
\* receives the error's own code and message if the error carries a code of
\* the taxonomy, and the code Internal if it carries none; no error that
\* carries a code reaches the caller as Internal.
C18_PassThrough ==
    caught.raised =>
        /\ caught.error.https =>
              /\ resp.status = caught.error.code
              /\ resp.body.kind = "error"
              /\ resp.body.error = caught.error.message
        /\ ~caught.error.https => Taxonomy(resp.status) = "Internal"
        /\ Taxonomy(resp.status) = "Internal" => ~caught.error.https

\* the not-found error getCharacterById raises inside its try block has
\* reached the caller
C18_Witness ==
    /\ req.op = "getCharacterById"
    /\ caught.raised
    /\ caught.error.https
    /\ caught.error.code = "not-found"
    /\ resp.status = "not-found"

-----------------------------------------------------------------------------
(* C19 *)

\* C19: the error response a caller receives is determined by the code
\* alone. When the handler caught an error of a dependency (the profile
\* store, the blob store, the AI service), neither the message nor the
\* details of the response hold the text of that error, so that two failures
\* with the same code and different dependency errors are answered alike.
C19_Original ==
    (caught.raised /\ caught.error.message \in {StoreError, BlobError, AiError}) =>
        /\ resp.body.kind = "error"
        /\ resp.body.details = ""
        /\ resp.body.error # caught.error.message

-----------------------------------------------------------------------------
(* C20 *)

\* an analysis response that is empty, is no JSON or lacks one of the fields
\* characterName, description and keywords
Unusable(text) ==
    \/ text = ""
    \/ ~JsonParse(text).ok
    \/ JsonParse(text).characterName = Undefined
    \/ JsonParse(text).description = Undefined
    \/ JsonParse(text).keywords = UndefinedKeywords

\* C20: a sequence whose analysis response is empty, is no JSON or lacks one
\* of the three fields fails, and no profile is written under its
\* identifier; every profile that is written holds the three fields exactly
\* as the analysis response of its sequence gave them, none undefined and
\* none replaced by a default.
C20_ParseFailureIsHard ==
    /\ \A t \in Sequences2 :
          (tasks[t].responseText # NoText /\ Unusable(tasks[t].responseText)) =>
              /\ tasks[t].pc = "failed"
              /\ tasks[t].characterId \notin DOMAIN profiles
    /\ \A t \in Sequences2 :
          tasks[t].characterId \in DOMAIN profiles =>
              LET analysis == JsonParse(tasks[t].responseText)
                  stored == profiles[tasks[t].characterId]
              IN
              /\ ~Unusable(tasks[t].responseText)
              /\ stored.characterName = analysis.characterName
              /\ stored.description = analysis.description
              /\ stored.keywords = analysis.keywords
    /\ \A id \in DOMAIN profiles : ~HasUndefined(profiles[id])

\* the analysis of one image lacked a field and its sequence has failed,
\* while the profile of the other image is written
C20_Witness ==
    \E t, u \in Sequences2 :
       /\ JsonParse(tasks[t].responseText).ok
       /\ Unusable(tasks[t].responseText)
       /\ tasks[t].pc = "failed"
       /\ tasks[u].characterId \in DOMAIN profiles

-----------------------------------------------------------------------------
(* C21 *)

\* the step serves a request of one of the three operations that only read
ReadOnlyStep ==
    /\ req = NoReq
    /\ req' # NoReq
    /\ req'.op \in {"getCharacterLibrary", "getCharacterById",
                    "generateCharacterVisualization"}

\* C21: profiles and blobs are write-once. Over every step, each stored
\* profile stays under its id with the userId, characterName, description,
\* keywords, imageUrl and createdAt it has, and each stored blob keeps its
\* bytes and content type; and a step that serves getCharacterLibrary,
\* getCharacterById or generateCharacterVisualization leaves both stores
\* exactly as they are.
C21_WriteOnce ==
    [][/\ \A id \in DOMAIN profiles :
             /\ id \in DOMAIN profiles'
             /\ profiles'[id].userId = profiles[id].userId
             /\ profiles'[id].characterName = profiles[id].characterName
             /\ profiles'[id].description = profiles[id].description
             /\ profiles'[id].keywords = profiles[id].keywords
             /\ profiles'[id].imageUrl = profiles[id].imageUrl
             /\ profiles'[id].createdAt = profiles[id].createdAt
       /\ \A path \in DOMAIN blobs :
             /\ path \in DOMAIN blobs'
             /\ blobs'[path].bytes = blobs[path].bytes
             /\ blobs'[path].contentType = blobs[path].contentType
       /\ ReadOnlyStep => (profiles' = profiles /\ blobs' = blobs)]_vars

\* a visualization of a stored profile has been served with both stores
\* holding what the creation of two different images wrote
C21_Witness ==
    /\ req.op = "generateCharacterVisualization"
    /\ Succeeded
    /\ Cardinality(DOMAIN profiles) = 2
    /\ Cardinality({blobs[path].bytes : path \in DOMAIN blobs}) = 2

-----------------------------------------------------------------------------
(* C22 *)

\* C22: a health probe needs no credential and is answered with a fixed
\* success status, and it is the only request that succeeds without a valid
\* bearer credential: every request to another route that lacks one fails.
C22_Original ==
    /\ req.op = "health" => (Succeeded /\ resp.status = "200")
    /\ (req # NoReq /\ req.op # "health" /\ Caller = "") => ~Succeeded

-----------------------------------------------------------------------------
(* C23 *)

\* the sequences of req that have drawn an identifier
Started == {t \in Sequences2 : tasks[t].characterId # ""}

\* the blob path of sequence t
PathOf(t) == FilePath(req.uid, tasks[t].characterId, tasks[t].mimeType)

-----------------------------------------------------------------------------
(* C24 *)

\* C24: createCharacterPair responds only when both of its sequences have
\* finished: whenever the response of a request, success or error, is out,
\* no sequence of the request is still running, so that nothing is written
\* on behalf of the request after its response.
C24_Original ==
    (req.op = "createCharacterPair" /\ resp # NoResp) => Settled

-----------------------------------------------------------------------------
(* C25 *)

\* how often issuer has issued call for the request under way
Issued(issuer, call) ==
    IF <<issuer, call>> \in DOMAIN issued THEN issued[<<issuer, call>>] ELSE 0

-----------------------------------------------------------------------------
(* C26 *)

HandleNames == {"app", "firestore", "storage", "ai"}

\* C26: with the lazy initialization routine, under every sequence and
\* interleaving of requests in one process, each client handle (admin app,
\* profile store, blob store, AI client) is created at most once, every
\* handle a handler has used was created before that use, and a handle that
\* is set is never assigned again; when the API key is absent the AI handle
\* stays unset and no handler uses it.
C26_InitializedOnce ==
    /\ [](/\ \A h \in HandleNames : handles[h] \in {NoHandle, 1}
          /\ \A u \in uses : u[2] = 1 /\ handles[u[1]] = 1
          /\ (\E i \in Slots : invocations[i].op # "none") =>
                (handles.app = 1 /\ handles.firestore = 1 /\ handles.storage = 1)
          /\ ~apiKey => handles.ai = NoHandle)
    /\ [][\A h \in HandleNames : handles[h] # NoHandle => handles'[h] = handles[h]]_vars

\* two invocations run side by side after the one initialization, each
\* having used the profile store; and a process without key has initialized
\* with ai unset
C26_Witness ==
    /\ \A i \in Slots : invocations[i].out = "pending"
    /\ invocations[1].op = "createCharacterPair"
    /\ invocations[1].seq["A"] = "set"
    /\ invocations[2].op = "generateCharacterVisualization"
    /\ invocations[2].pc = "ai"
    /\ uses = {<<"firestore", 1>>, <<"storage", 1>>, <<"ai", 1>>}
    /\ handles.app = 1

-----------------------------------------------------------------------------
(* C27 *)

\* the profiles createCharacterPair has stored for the request under way
CreatedNow ==
    {t \in Sequences2 : tasks[t].characterId \in DOMAIN profiles}

\* C27: for every profile created by createCharacterPair the path that
\* generateCharacterVisualization extracts from the profile's imageUrl
\* (the URL path without its bucket segment, URL-decoded) is the path
\* user_uploads/<ownerId>/<id>.<subtype> under which the sequence stored
\* the blob, and the blob read for a visualization of the profile is the
\* one at that path.
C27_RoundTrip ==
    /\ \A t \in CreatedNow :
          /\ PathOfUrl(profiles[tasks[t].characterId].imageUrl) = PathOf(t)
          /\ PathOf(t) \in DOMAIN blobs
          /\ blobs[PathOf(t)] = SavedBlob(tasks[t])
    /\ \A id \in DOMAIN profiles :
          ~MissingImageUrl(profiles[id]) =>
             \E subtype \in {Subtype(mt) : mt \in MimeTypes \ {<<>>}} :
                BlobOf(id) = <<"user_uploads", profiles[id].userId, id \o "." \o subtype>>
    /\ (req.op = "generateCharacterVisualization" /\ blobReads # {}) =>
          blobReads = {BlobOf(req.characterId)}

\* a profile whose blob name needs percent-encoding in the URL has been
\* created and, in a later request, its blob has been read back
C27_Witness ==
    /\ req.op = "generateCharacterVisualization"
    /\ req.characterId \in DOMAIN profiles
    /\ blobReads = {BlobOf(req.characterId)}
    /\ profiles[req.characterId].imageUrl.pathname # <<"", Bucket>> \o BlobOf(req.characterId)
    /\ blobs[BlobOf(req.characterId)].contentType = <<"image", "svg+xml">>

-----------------------------------------------------------------------------
(* C28 *)

\* the blob paths no stored profile points to
Orphans == DOMAIN blobs \ {BlobOf(id) : id \in DOMAIN profiles}

\* C28: in every reachable state, whatever the interleaving of the
\* analyze-and-save sequences and wherever they fail, each stored profile
\* has a stored blob at the path derived from its ownerId and its id; and
\* a sequence that has got as far as the analysis call or the profile write
\* has its blob stored already.
C28_ProfileHasBlob ==
    /\ \A id \in DOMAIN profiles :
          /\ BlobOf(id) \in DOMAIN blobs
          /\ \E mimeType \in MimeTypes :
                BlobOf(id) = FilePath(profiles[id].userId, id, mimeType)
    /\ \A t \in Sequences2 :
          tasks[t].pc \in {"url", "ai", "set", "get", "done"} => PathOf(t) \in DOMAIN blobs

\* one sequence stored its blob and its profile, the other stored its blob
\* and failed before its profile was written: a blob without a profile
C28_Witness ==
    /\ req.op = "createCharacterPair"
    /\ Settled
    /\ Cardinality(DOMAIN profiles) = 1
    /\ Cardinality(Orphans) = 1
    /\ \E t \in Sequences2 : tasks[t].pc = "failed" /\ PathOf(t) \in Orphans

-----------------------------------------------------------------------------
(* C29 *)

\* C29: every request to one of the four Express endpoints receives a
\* response, whatever the credential, the payload, the configuration of
\* the AI client and the outcome of the dependency calls: once the handler
\* and the sequences it started have run to their end, a response is out.
C29_Original ==
    (/\ backend = "express"
     /\ req # NoReq
     /\ req.op # "health"
     /\ Settled) => resp # NoResp

-----------------------------------------------------------------------------
(* C30 *)

\* the calls that go to the profile store or to the blob store
StorageCalls ==
    {"store.query", "store.get", "store.set",
     "blob.save", "blob.getSignedUrl", "blob.getMetadata", "blob.download"}

\* an exchange of one of the two operations that need the AI client
NeedsAiNow == req.op \in {"createCharacterPair", "generateCharacterVisualization"}

\* C30: when the AI client is not configured, createCharacterPair and
\* generateCharacterVisualization make no call to the profile store or to
\* the blob store, read no blob, start no sequence that saves, and leave
\* both stores as they were.
C30_NoStorageWithoutAi ==
    /\ []((~apiKey /\ NeedsAiNow) =>
             /\ calls \cap StorageCalls = {}
             /\ blobReads = {}
             /\ \A t \in Sequences2 : tasks[t].pc \in {"idle", "failed"})
    /\ [][(~apiKey /\ (NeedsAiNow \/ NeedsAiNow')) =>
             (profiles' = profiles /\ blobs' = blobs)]_vars

\* without the key, a createCharacterPair of a signed-in caller with two
\* valid images has ended in an error, and the stores an earlier run
\* filled are as they were
C30_Witness ==
    /\ ~apiKey
    /\ req.op = "createCharacterPair"
    /\ Caller # ""
    /\ req.data.charABase64 # "" /\ req.data.charBBase64 # ""
    /\ req.data.charAMimeType # <<>> /\ req.data.charBMimeType # <<>>
    /\ resp # NoResp
    /\ Settled
    /\ calls \cap StorageCalls = {}
    /\ DOMAIN profiles = EarlierIds
    /\ Cardinality(DOMAIN blobs) = 2

====
